---- MODULE Spec2Model ----
(***************************************************************************)
(* Model of fs_example (src/lib.rs): a PostgreSQL extension defining the   *)
(* SimpleArray type, laid out as                                           *)
(*     varlen header | data len | data len f64s                            *)
(* with the aggregate simple_array (simple_array_trans/simple_array_final) *)
(* and the accessor index.                                                 *)
(*                                                                         *)
(* Memory is a sequence of bytes (0..255).  A u32 and an f64 are the       *)
(* bytes of their native (little-endian) representation.  A view holds     *)
(* offsets into the buffer it borrows from, never copies of its bytes.     *)
(* An Option is a sequence of length 0 (None) or 1 (Some).                 *)
(***************************************************************************)
EXTENDS Integers, Sequences, FiniteSets, TLC

VARIABLES
    state,   \* Option<Internal<Vec<f64>>>: the aggregate's transition state
    phase,   \* "agg" while transition calls arrive, "done" after the final
             \* function, "stored" for a value handed over by the host
    mem,     \* the bytes of the buffer the current datum points into
    datum,   \* Option<Datum>: the address (offset in mem) of the value
    ret,     \* Option<SimpleArray>: what simple_array_final returned
    input,   \* the byte slice last handed to try_ref
    parsed,  \* the Result of that try_ref
    arr,     \* Option<SimpleArray>: what from_datum returned
    err,     \* the error raised by from_datum, "none" if none
    idx,     \* the index argument of the last call of index, -1 before it
    res,     \* Option<f64>: what that call returned
    last     \* the function called last, "none" before any

vars == <<state, phase, mem, datum, ret, input, parsed, arr, err, idx, res, last>>

----------------------------------------------------------------------------
(* Bounds of the model *)

\* longest vector accumulated from arbitrary values
MaxLen == 3
\* largest index argument tried
MaxIndex == 5
\* longest buffer handed to the reader
MaxBufLen == 34

(* Program constants *)

\* generate_series(1, 100, 1) in test_aggregate
SeriesStart == 1
SeriesStop == 100
\* the index test_aggregate asks for
TestIndex == 1

----------------------------------------------------------------------------
(* The layout: flat_serialize! { struct SimpleArrayData { ... } } *)

\* (a variant of the layout: header: u64)
HeaderWidthU64 == 4 + 4
\* header: u32
HeaderWidth == 4
\* (a variant of the layout: len: u16)
LenWidthU16 == HeaderWidth \div 2
\* len: u32
LenWidth == 4
\* (a variant of the layout: data: [f32; self.len])
ElemWidthF32 == LenWidth
\* data: [f64; self.len]
ElemWidth == 8
\* width in bytes of the size type (usize) of the 64-bit targets pgx builds for
USizeBytes == 8

None == <<>>
Some(x) == <<x>>

\* the native (little-endian) representation, w bytes wide, of the unsigned
\* integer n
RECURSIVE LE(_, _)
LE(n, w) == IF w = 0 THEN <<>> ELSE <<n % 256>> \o LE(n \div 256, w - 1)

\* the native representation of a u32 whose value is n
U32LE(n) == LE(n, 4)

RECURSIVE Pow2(_)
Pow2(e) == IF e = 0 THEN 1 ELSE 2 * Pow2(e - 1)

RECURSIVE Log2(_)
Log2(k) == IF k < 2 THEN 0 ELSE 1 + Log2(k \div 2)

\* the native representation of the f64 whose value is the integer k, 0 <= k < 128:
\* sign 0, biased exponent 1023 + floor(log2 k), the fraction in the top bits
\* of the 52-bit mantissa
F64(k) ==
    IF k = 0 THEN <<0, 0, 0, 0, 0, 0, 0, 0>>
    ELSE LET e == Log2(k)
             biased == 1023 + e
             top12 == (k - Pow2(e)) * Pow2(12 - e)
         IN  <<0, 0, 0, 0, 0, top12 % 256,
               (biased % 16) * 16 + top12 \div 256, biased \div 16>>

\* w bytes of m starting at offset off (0-based); -1 stands for a byte that
\* lies outside m
Read(m, off, w) ==
    [j \in 1..w |-> IF off + j \in 1..Len(m) THEN m[off + j] ELSE -1]

RECURSIVE Concat(_)
Concat(chunks) ==
    IF chunks = <<>> THEN <<>> ELSE Head(chunks) \o Concat(Tail(chunks))

----------------------------------------------------------------------------
(* Arithmetic in the size type.  A usize is its USizeBytes base-256 digits,  *)
(* least significant first: a u32 count times 8 does not fit the 32-bit     *)
(* integers of TLC.                                                          *)

\* a narrower unsigned integer `as usize`: zero extension
ToUsize(bytes) == [i \in 1..USizeBytes |-> IF i <= Len(bytes) THEN bytes[i] ELSE 0]

RECURSIVE MulDigits(_, _, _)
MulDigits(d, k, carry) ==
    IF d = <<>> THEN <<carry>>
    ELSE LET t == Head(d) * k + carry
         IN  <<t % 256>> \o MulDigits(Tail(d), k, t \div 256)

\* d * k in the size type, and whether the product overflowed it
CheckedMul(d, k) ==
    LET r == MulDigits(d, k, 0)
    IN  [digits |-> SubSeq(r, 1, Len(d)), overflow |-> r[Len(r)] # 0]

\* the value of d, for a d that FitsIn some n < 2^24
ToInt(d) == d[1] + 256 * d[2] + 65536 * d[3]

\* d <= n, for 0 <= n < 2^24
FitsIn(d, n) == (\A i \in 4..Len(d) : d[i] = 0) /\ ToInt(d) <= n

----------------------------------------------------------------------------
(* The code flat_serialize! generates for SimpleArrayData *)

\* the sum of the fixed field widths
MinimumSize == HeaderWidth + LenWidth

\* SimpleArrayData::try_ref(bytes) -> Result<(SimpleArrayData, &[u8]), _>:
\* too short for the fixed fields; then header and len are read, the size
\* of data is len * 8 in the size type (an overflow is an error of its own),
\* and data must fit in what is left of bytes after the fixed fields.
\* The view's fields and the remainder are spans of `bytes`, as offsets.
TryRef(bytes) ==
    IF Len(bytes) < MinimumSize THEN [ok |-> FALSE, err |-> "TooShort"]
    ELSE LET cursor == HeaderWidth + LenWidth
             n == ToUsize(Read(bytes, HeaderWidth, LenWidth))
             size == CheckedMul(n, ElemWidth)
         IN  IF size.overflow THEN [ok |-> FALSE, err |-> "LengthOverflow"]
             ELSE IF ~FitsIn(size.digits, Len(bytes) - cursor)
                  THEN [ok |-> FALSE, err |-> "TooShort"]
             ELSE [ok |-> TRUE, err |-> "none",
                   view |-> [header |-> 0,
                             len |-> HeaderWidth,
                             data |-> [off |-> cursor, count |-> ToInt(n)]],
                   rest |-> [off |-> cursor + ToInt(size.digits),
                             len |-> Len(bytes) - cursor - ToInt(size.digits)]]

\* the values a view refers to, read through the buffer m it borrows from
HeaderOf(m, view) == Read(m, view.header, HeaderWidth)
LenOf(m, view) == Read(m, view.len, LenWidth)
DataOf(m, view) ==
    [i \in 1..view.data.count |-> Read(m, view.data.off + (i - 1) * ElemWidth, ElemWidth)]
RestOf(m, rest) == Read(m, rest.off, rest.len)

\* SimpleArrayData { header, data }.fill_vec(&mut output): the fields in
\* declaration order, len computed from the length of data
FillVec(header, data) ==
    LE(header, HeaderWidth) \o LE(Len(data), LenWidth) \o Concat(data)

----------------------------------------------------------------------------
(* The varlena header, as pgx and PostgreSQL read and write it (little endian) *)

\* set_varsize(ptr, len): va_header = (len as u32) << 2, at the start of m
SetVarsize(m, len) ==
    LET hdr == <<(len % 64) * 4, (len \div 64) % 256,
                 (len \div 16384) % 256, (len \div 4194304) % 256>>
    IN  [i \in 1..Len(m) |-> IF i <= 4 THEN hdr[i] ELSE m[i]]

\* VARATT_IS_1B: does the value at ptr carry a one-byte header
VarattIs1B(m, ptr) == m[ptr + 1] % 2 = 1

\* VARATT_IS_1B_E: is the value at ptr a pointer to an external (toasted)
\* value, a header byte of 0x01 followed by the tag of the pointer
VarattIs1BE(m, ptr) == m[ptr + 1] = 1

\* VARTAG_SIZE(tag): the size of the pointer after its two-byte header, 8 for
\* an indirect (1) or expanded (2, 3) pointer, 16 for an on-disk one (18),
\* the four 4-byte fields of varatt_external; -1 stands for the panic on an
\* unrecognized tag
VartagSize(tag) ==
    IF tag \in {1, 2, 3} THEN 8
    ELSE IF tag = 18 THEN 16
    ELSE -1

\* varsize_any(ptr): VARSIZE_EXTERNAL (the two-byte header and the pointer),
\* VARSIZE_1B or VARSIZE_4B
VarsizeAny(m, ptr) ==
    IF VarattIs1BE(m, ptr)
    THEN IF VartagSize(m[ptr + 2]) < 0 THEN -1 ELSE 2 + VartagSize(m[ptr + 2])
    ELSE IF VarattIs1B(m, ptr) THEN (m[ptr + 1] \div 2) % 128
    ELSE (m[ptr + 1] \div 4) + 64 * m[ptr + 2] + 16384 * m[ptr + 3]
         + 4194304 * m[ptr + 4]

\* what pg_detoast_datum_packed returns and the host guarantees of it: a
\* value that is no pointer to an external one, whose header lies in m and
\* so do the bytes the header announces
DatumReadable(m, ptr) ==
    /\ ptr + 1 <= Len(m)
    /\ ~VarattIs1BE(m, ptr)
    /\ IF VarattIs1B(m, ptr) THEN TRUE ELSE ptr + 4 <= Len(m)
    /\ ptr + VarsizeAny(m, ptr) <= Len(m)

----------------------------------------------------------------------------
(* src/lib.rs *)

\* (a variant of from_datum that returns None where try_ref fails, raising
\* nothing)
from_datumSwallow(m, d) ==
    IF d = None THEN [val |-> None, err |-> "none", called |-> FALSE]
    ELSE LET ptr == d[1]
             data_len == VarsizeAny(m, ptr)
             bytes == Read(m, ptr, data_len)
             r == TryRef(bytes)
         IN  [val |-> IF r.ok
                      THEN Some([header |-> ptr + r.view.header,
                                 len |-> ptr + r.view.len,
                                 data |-> [off |-> ptr + r.view.data.off,
                                           count |-> r.view.data.count]])
                      ELSE None,
              err |-> "none", called |-> TRUE, bytes |-> bytes, parsed |-> r]

\* (a variant of from_datum that takes varsize_any for the size of the
\* payload and adds the four bytes of the header to it)
from_datumPastEnd(m, d) ==
    IF d = None THEN [val |-> None, err |-> "none", called |-> FALSE]
    ELSE LET ptr == d[1]
             data_len == VarsizeAny(m, ptr) + 4
             bytes == Read(m, ptr, data_len)
             r == TryRef(bytes)
         IN  [val |-> IF r.ok
                      THEN Some([header |-> ptr + r.view.header,
                                 len |-> ptr + r.view.len,
                                 data |-> [off |-> ptr + r.view.data.off,
                                           count |-> r.view.data.count]])
                      ELSE None,
              err |-> r.err, called |-> TRUE, bytes |-> bytes, parsed |-> r]

\* impl FromDatum for SimpleArray: None for a null, the view try_ref gives
\* for the value's bytes, or error!("invalid SimpleArray {:?}", e)
from_datum(m, d) ==
    IF d = None THEN [val |-> None, err |-> "none", called |-> FALSE]
    ELSE LET ptr == d[1]
             data_len == VarsizeAny(m, ptr)
             bytes == Read(m, ptr, data_len)
             r == TryRef(bytes)
         IN  [val |-> IF r.ok
                      THEN Some([header |-> ptr + r.view.header,
                                 len |-> ptr + r.view.len,
                                 data |-> [off |-> ptr + r.view.data.off,
                                           count |-> r.view.data.count]])
                      ELSE None,
              err |-> r.err, called |-> TRUE, bytes |-> bytes, parsed |-> r]

\* impl IntoDatum for SimpleArray: a pointer to the start of the buffer
into_datum(v) == IF v = None THEN None ELSE Some(v[1].header)

\* (a variant of flatten! that reads back the payload after the varlena
\* header instead of the whole buffer)
FlattenSkipHeader(header, data) ==
    LET output == FillVec(header, data)
        sized == SetVarsize(output, Len(output))
    IN  [mem |-> sized, result |-> TryRef(SubSeq(sized, 5, Len(sized)))]

\* (a variant of flatten! without the call of set_varsize)
FlattenNoVarsize(header, data) ==
    LET output == FillVec(header, data)
    IN  [mem |-> output, result |-> TryRef(output)]

\* flatten!: build the struct, fill_vec, set_varsize, try_ref(..).unwrap().0
Flatten(header, data) ==
    LET output == FillVec(header, data)
        sized == SetVarsize(output, Len(output))
    IN  [mem |-> sized, result |-> TryRef(sized)]

\* (a variant of index that counts positions from one)
indexOneBased(m, view, i) ==
    IF 1 <= i /\ i - 1 < view.data.count
    THEN Some(Read(m, view.data.off + (i - 1) * ElemWidth, ElemWidth))
    ELSE None

\* (a variant of index that admits the position one past the end)
indexPastEnd(m, view, i) ==
    IF i <= view.data.count
    THEN Some(Read(m, view.data.off + i * ElemWidth, ElemWidth))
    ELSE None

\* fn index: state.0.data.get(index as usize).cloned()
index(m, view, i) ==
    IF i < view.data.count
    THEN Some(Read(m, view.data.off + i * ElemWidth, ElemWidth))
    ELSE None

----------------------------------------------------------------------------
Init ==
    /\ state = None
    /\ phase = "agg"
    /\ mem = <<>>
    /\ datum = None
    /\ ret = None
    /\ input = <<>>
    /\ parsed = [ok |-> FALSE, err |-> "unset"]
    /\ arr = None
    /\ err = "none"
    /\ idx = -1
    /\ res = None
    /\ last = "none"

\* state.unwrap_or_else(|| vec![].into()); state.push(value); Some(state)
simple_array_trans(st, value) ==
    LET v == IF st = None THEN <<>> ELSE st[1]
    IN  Some(Append(v, value))

\* fn simple_array_final: None for no state, else the state flattened with
\* header 0; `flattened` is false when the unwrap in flatten! panics
simple_array_final(st) ==
    IF st = None THEN [ret |-> None, flattened |-> FALSE, panicked |-> FALSE]
    ELSE LET f == Flatten(0, st[1])
         IN  [ret |-> IF f.result.ok THEN Some(f.result.view) ELSE None,
              flattened |-> TRUE, panicked |-> ~f.result.ok,
              mem |-> f.mem, result |-> f.result]

StateLen == IF state = None THEN 0 ELSE Len(state[1])

\* one call of the transition function
Trans(value) ==
    /\ phase = "agg"
    /\ state' = simple_array_trans(state, value)
    /\ last' = "simple_array_trans"
    /\ UNCHANGED <<phase, mem, datum, ret, input, parsed, arr, err, idx, res>>

\* the call of the final function, and the conversion of what it returns
\* into a datum
Final ==
    /\ phase = "agg"
    /\ phase' = "done"
    /\ last' = "simple_array_final"
    /\ LET r == simple_array_final(state)
       IN  /\ ret' = r.ret
           /\ datum' = into_datum(r.ret)
           /\ err' = IF r.panicked THEN "panic" ELSE "none"
           /\ IF r.flattened
              THEN mem' = r.mem /\ input' = r.mem /\ parsed' = r.result
              ELSE UNCHANGED <<mem, input, parsed>>
    /\ UNCHANGED <<state, arr, idx, res>>

\* the conversion of the current datum into the argument of a function
FromDatum ==
    /\ phase \in {"done", "stored"}
    /\ IF datum = None THEN TRUE ELSE DatumReadable(mem, datum[1])
    /\ last' = "from_datum"
    /\ LET r == from_datum(mem, datum)
       IN  /\ arr' = r.val
           /\ IF r.called
              THEN err' = r.err /\ input' = r.bytes /\ parsed' = r.parsed
              ELSE UNCHANGED <<err, input, parsed>>
    /\ UNCHANGED <<state, phase, mem, datum, ret, idx, res>>

\* one call of index on the converted argument
Index(i) ==
    /\ arr # None
    /\ idx' = i
    /\ last' = "index"
    /\ res' = index(mem, arr[1], i)
    /\ UNCHANGED <<state, phase, mem, datum, ret, input, parsed, arr, err>>

\* a direct call of the reader on the whole buffer
ReadBytes ==
    /\ phase = "stored"
    /\ input' = mem
    /\ last' = "try_ref"
    /\ parsed' = TryRef(mem)
    /\ UNCHANGED <<state, phase, mem, datum, ret, arr, err, idx, res>>

----------------------------------------------------------------------------
(* The inputs *)

\* the values handed to the transition function
Values == {F64(1), F64(2), F64(3)}

\* the values generate_series(1, 100, 1) yields, in order
Series == [i \in 1..(SeriesStop - SeriesStart + 1) |-> F64(SeriesStart + i - 1)]

IsSeriesPrefix(v) == Len(v) <= Len(Series) /\ v = SubSeq(Series, 1, Len(v))

\* the index arguments
Indexes == (0..MaxIndex) \cup {SeriesStop - 1, SeriesStop, 2147483647}

\* the headers of the buffers handed to the reader: the four-byte header of
\* a value of L bytes, a zero header, the one-byte header of a value of L
\* bytes, and all ones
HeaderChoices(L) ==
    {SetVarsize(<<0, 0, 0, 0>>, L), <<0, 0, 0, 0>>,
     <<(2 * L + 1) % 256, 7, 7, 7>>, <<255, 255, 255, 255>>}

\* the len fields: small counts, and counts whose size in bytes exceeds any
\* buffer, up to the largest u32
LenChoices ==
    {U32LE(0), U32LE(1), U32LE(2), U32LE(3), U32LE(256),
     <<0, 0, 0, 32>>, <<1, 0, 0, 32>>, <<255, 255, 255, 255>>}

Fill(seed, k) == [i \in 1..k |-> (seed + 37 * i) % 256]

\* what follows the len field: bytes that differ from offset to offset, or
\* the f64s 1.0, 2.0, ...
Payloads ==
    {Fill(0, MaxBufLen), Fill(101, MaxBufLen),
     Concat([i \in 1..(MaxBufLen \div 8 + 1) |-> F64(i)])}

Buffers ==
    UNION {{SubSeq(h \o l \o p, 1, L) :
               h \in HeaderChoices(L), l \in LenChoices, p \in Payloads} :
           L \in 0..MaxBufLen}

----------------------------------------------------------------------------
(* The aggregate: transition calls with arbitrary values or with the values *)
(* of test_aggregate, the final function, then index on its result          *)

TransAny == \E v \in Values : StateLen < MaxLen /\ Trans(v)

TransSeries ==
    /\ StateLen < Len(Series)
    /\ IF state = None THEN TRUE ELSE IsSeriesPrefix(state[1])
    /\ Trans(Series[StateLen + 1])

CallIndex == \E i \in Indexes : Index(i)

Next == TransAny \/ TransSeries \/ Final \/ FromDatum \/ CallIndex

Spec == Init /\ [][Next]_vars

(* The reader on the buffers the host may hand over *)

InitReader ==
    /\ state = None
    /\ phase = "stored"
    /\ mem \in Buffers
    /\ datum = Some(0)
    /\ ret = None
    /\ input = <<>>
    /\ parsed = [ok |-> FALSE, err |-> "unset"]
    /\ arr = None
    /\ err = "none"
    /\ idx = -1
    /\ res = None
    /\ last = "none"

NextReader == ReadBytes \/ FromDatum \/ CallIndex

SpecReader == InitReader /\ [][NextReader]_vars

(* The writer on every vector, the empty one included *)

RECURSIVE SeqsUpTo(_, _)
SeqsUpTo(S, n) ==
    IF n = 0 THEN {<<>>}
    ELSE LET shorter == SeqsUpTo(S, n - 1)
         IN  shorter \cup {Append(q, x) : q \in shorter, x \in S}

InitWriter ==
    /\ state \in {Some(S) : S \in SeqsUpTo(Values, MaxLen)}
    /\ phase = "agg"
    /\ mem = <<>>
    /\ datum = None
    /\ ret = None
    /\ input = <<>>
    /\ parsed = [ok |-> FALSE, err |-> "unset"]
    /\ arr = None
    /\ err = "none"
    /\ idx = -1
    /\ res = None
    /\ last = "none"

NextWriter == Final \/ FromDatum \/ CallIndex

SpecWriter == InitWriter /\ [][NextWriter]_vars
----------------------------------------------------------------------------
(* The claims.  They state the layout in bytes (header at 0..3, len at      *)
(* 4..7, element i at 8 + 8i .. 15 + 8i) rather than through the model's    *)
(* definitions.                                                             *)

\* the vector handed to the final function
Accumulated == state[1]

\* simple_array_final has flattened a vector
Flattened == phase = "done" /\ state # None

OneTwoThree == <<F64(1), F64(2), F64(3)>>

\* the reader has been called
ReaderCalled == parsed.err # "unset"

\* the len field of buffer b announces more elements than b holds after its
\* first 8 bytes
AnnouncesTooMany(b) ==
    \/ b[7] # 0
    \/ b[8] # 0
    \/ b[5] + 256 * b[6] > (Len(b) - 8) \div 8

\* the size in bytes of the record the len field of b announces, when it
\* does not announce too many
AnnouncedSize(b) == 8 + 8 * (b[5] + 256 * b[6])

TooShort == [ok |-> FALSE, err |-> "TooShort"]

\* C1: round trip.  For every vector S, the empty one included, the view
\* simple_array_final gets by reading back the buffer it wrote has a len
\* field equal to |S| and data equal to S, element for element and in order.
C1_RoundTrip ==
    Flattened =>
        /\ ret # None
        /\ err = "none"
        /\ ret[1].data.count = Len(Accumulated)
        /\ LenOf(mem, ret[1]) = U32LE(Len(Accumulated))
        /\ DataOf(mem, ret[1]) = Accumulated

C1_Witness ==
    /\ Flattened
    /\ Accumulated = OneTwoThree
    /\ ret # None
    /\ DataOf(mem, ret[1]) = OneTwoThree

\* C2: zero-based indexing of the aggregate's result.  After transition
\* calls with v_0 .. v_(k-1) and the final function, index(array, i) with
\* i < k is Some(v_i); for the values 1 .. 100, index(array, 1) is 2.0.
C2_ZeroBased ==
    (Flattened /\ idx >= 0 /\ idx < Len(Accumulated)) =>
        /\ res = Some(Accumulated[idx + 1])
        /\ (Accumulated = Series /\ idx = TestIndex) => res = Some(F64(2))

C2_Witness ==
    /\ Flattened
    /\ Accumulated = Series
    /\ idx = TestIndex
    /\ res = Some(F64(2))

\* C3: what test_aggregate asserts.  For the values 1 .. 100 aggregated in
\* order, index(array, 1) is Some(1.0).
C3_TestAggregate ==
    (Flattened /\ Accumulated = Series /\ idx = TestIndex) => res = Some(F64(1))

\* C4: indexing out of range is None, not an error.  For every view of n
\* elements and every index i, index gives Some of the element at bytes
\* 8 + 8i .. 15 + 8i when i < n and None when i >= n; it raises nothing.
C4_IndexInRangeOrNone ==
    (last = "index" /\ phase = "stored") =>
        /\ err = "none"
        /\ IF idx < mem[5] + 256 * mem[6]
           THEN res = Some(SubSeq(mem, 9 + 8 * idx, 16 + 8 * idx))
           ELSE res = None

C4_Witness ==
    /\ last = "index"
    /\ phase = "stored"
    /\ DataOf(mem, arr[1]) = OneTwoThree
    /\ idx = 5
    /\ res = None

\* C5: minimum-size rejection.  The reader fails with TooShort, and gives
\* no view, on every buffer of fewer than 8 bytes; from_datum then raises
\* the error and produces no SimpleArray.
C5_MinimumSize ==
    (ReaderCalled /\ Len(input) < 8) =>
        /\ parsed = TooShort
        /\ (last = "from_datum") => (arr = None /\ err = "TooShort")

C5_Witness ==
    /\ last = "from_datum"
    /\ Len(input) = 7
    /\ parsed = TooShort
    /\ err = "TooShort"

\* C6: corrupted-length rejection.  On every buffer of at least 8 bytes
\* whose len field n has 8 + 8n > len(B), the reader fails with TooShort
\* and gives no view.
C6_CorruptedLength ==
    (ReaderCalled /\ Len(input) >= 8 /\ AnnouncesTooMany(input)) =>
        /\ parsed = TooShort
        /\ (last = "from_datum") => (arr = None /\ err = "TooShort")

C6_Witness ==
    /\ ReaderCalled
    /\ Len(input) = MaxBufLen
    /\ SubSeq(input, 5, 8) = U32LE(256)
    /\ parsed = TooShort

\* C7: exact-length acceptance and over-length tolerance.  On every buffer
\* B whose len field n has len(B) >= 8 + 8n the reader succeeds, and the
\* remainder it returns is the suffix of B after its first 8 + 8n bytes.
C7_Remainder ==
    (ReaderCalled /\ Len(input) >= 8 /\ ~AnnouncesTooMany(input)) =>
        /\ parsed.ok
        /\ parsed.rest.off = AnnouncedSize(input)
        /\ parsed.rest.len = Len(input) - AnnouncedSize(input)
        /\ RestOf(input, parsed.rest)
             = SubSeq(input, AnnouncedSize(input) + 1, Len(input))

C7_Witness ==
    /\ ReaderCalled
    /\ parsed.ok
    /\ parsed.view.data.count = 2
    /\ parsed.rest.len = 3
    /\ RestOf(input, parsed.rest) = SubSeq(input, 25, 27)

\* C8: no out-of-bounds access.  On every buffer B the reader fails with
\* TooShort or LengthOverflow, or gives a view whose header, len and data
\* lie within B, with as many elements as the len field says; the bytes
\* from_datum hands to the reader are the bytes of the value and no more.
C8_InBounds ==
    /\ ReaderCalled =>
          IF parsed.ok
          THEN /\ parsed.view.header = 0
               /\ parsed.view.len = 4
               /\ parsed.view.data.off = 8
               /\ U32LE(parsed.view.data.count) = SubSeq(input, 5, 8)
               /\ 8 + 8 * parsed.view.data.count <= Len(input)
               /\ parsed.rest.off + parsed.rest.len = Len(input)
          ELSE parsed \in {TooShort, [ok |-> FALSE, err |-> "LengthOverflow"]}
    /\ (last = "from_datum" /\ datum # None) =>
          /\ Len(input) = VarsizeAny(mem, 0)
          /\ Len(input) <= Len(mem)
          /\ input = SubSeq(mem, 1, Len(input))
          /\ arr # None => 8 + 8 * arr[1].data.count <= VarsizeAny(mem, 0)

C8_Witness ==
    /\ ReaderCalled
    /\ Len(input) = MaxBufLen
    /\ SubSeq(input, 5, 8) = <<255, 255, 255, 255>>
    /\ parsed = TooShort

\* C9: the writer's size and derived length.  For every vector S the buffer
\* written has exactly 8 + 8|S| bytes, its len field is |S|, and header,
\* len and the elements of S follow one another without padding.
C9_WriterSize ==
    Flattened =>
        /\ Len(mem) = 8 + 8 * Len(Accumulated)
        /\ SubSeq(mem, 5, 8) = U32LE(Len(Accumulated))
        /\ \A i \in 1..Len(Accumulated) :
              SubSeq(mem, 8 * i + 1, 8 * i + 8) = Accumulated[i]

C9_Witness ==
    /\ Flattened
    /\ Accumulated = OneTwoThree
    /\ Len(mem) = 32
    /\ SubSeq(mem, 5, 8) = U32LE(3)

\* C10, as claimed: the header is not filled in by serialization.  The
\* buffer simple_array_final produced reads back with the header 0 it was
\* built with.
C10_HeaderZero ==
    Flattened => HeaderOf(mem, ret[1]) = U32LE(0)

\* C10, amended: flatten! overwrites the header 0 with the varlena size
\* word of the buffer, its length in bytes shifted left by two; the buffer
\* reads back with that header.
C10_HeaderVarsize ==
    Flattened =>
        /\ ret # None
        /\ HeaderOf(mem, ret[1]) = U32LE(4 * (8 + 8 * Len(Accumulated)))
        /\ SubSeq(mem, 1, 4) = U32LE(4 * Len(mem))

C10_Witness ==
    /\ Flattened
    /\ Accumulated = OneTwoThree
    /\ HeaderOf(mem, ret[1]) = U32LE(128)
====
